---- MODULE Spec2Model ----
(***************************************************************************)
(* Window bounds of pandas/core/window_/indexers.py:                       *)
(* FixedWindowIndexer.get_window_bounds and                                *)
(* VariableWindowIndexer.get_window_bounds, as pure functions of the       *)
(* indexer's configuration (self.index) and the call's arguments.          *)
(* Python sequences are 0-based; the model keeps the 0-based positions in  *)
(* every value it stores and shifts by one only when it reads a TLA+       *)
(* sequence (Idx).                                                         *)
(***************************************************************************)
EXTENDS Integers, Sequences, FiniteSets

\* Bounds of the model.
MaxLen == 6
MaxKey == 3
MaxWin == 3

VARIABLES indexer, hasIndex, index, hasValues, values, window_size, closed,
          pc, result

vars == <<indexer, hasIndex, index, hasValues, values, window_size, closed,
          pc, result>>

Min(S) == CHOOSE x \in S : \A y \in S : x <= y

----------------------------------------------------------------------------
\* numpy helpers

\* np.zeros(k)
Zeros(k) == [x \in 1..k |-> 0]

\* np.arange(a, b): a, a+1, ..., b-1; empty when b <= a
Arange(a, b) == [x \in 1..(IF b > a THEN b - a ELSE 0) |-> a + x - 1]

\* array + scalar
AddScalar(s, c) == [x \in 1..Len(s) |-> s[x] + c]

\* np.concatenate([a, b])
Concatenate(a, b) == a \o b

\* a[k] is defined for -len(a) <= k < len(a); negative k counts from the end
InRange(s, k) == (-Len(s) <= k) /\ (k < Len(s))
Idx(s, k) == s[(IF k < 0 THEN k + Len(s) ELSE k) + 1]

\* a[k] = v
SetIdx(s, k, v) == [s EXCEPT ![(IF k < 0 THEN k + Len(s) ELSE k) + 1] = v]

\* np.empty(n); fill(-1)
Filled(n) == [x \in 1..n |-> -1]

\* num_values = len(values) if values is not None else 0
NumValues(hv, vs) == IF hv THEN Len(vs) ELSE 0

----------------------------------------------------------------------------
\* The value of a call: the arrays as they are when the call returns or
\* raises, the exception if any and where it was raised, and the counters
\* of the scan (comparisons of the inner loop, times the branch
\* end[i] = end[i-1] ran, positions read through index[end[i-1]]).

NoResult == [status |-> "none", raisedAt |-> "none", start |-> <<>>,
             end |-> <<>>, steps |-> 0, held |-> 0, endReads |-> {},
             endReadsOk |-> TRUE]

Returned(s, e) == [NoResult EXCEPT !.status = "ok", !.start = s, !.end = e]

Raise(acc, exc, where) == [acc EXCEPT !.status = exc, !.raisedAt = where]

----------------------------------------------------------------------------
\* FixedWindowIndexer.get_window_bounds

FixedStartE_NoPlusOne(w, num) == AddScalar(Arange(w, num), -w)
FixedStartE(w, num) == AddScalar(Arange(w, num), -w + 1)

FixedGetWindowBounds(hv, vs, w) ==
    LET num_values == NumValues(hv, vs)
        start_s == Zeros(w)
        start_e == FixedStartE(w, num_values)
        start   == Concatenate(start_s, start_e)
        end_s   == AddScalar(Arange(0, w), 1)
        end_e   == AddScalar(start_e, w)
        end     == Concatenate(end_s, end_e)
    IN Returned(start, end)

----------------------------------------------------------------------------
\* VariableWindowIndexer._calculate_closed_bounds: <<left_closed, right_closed>>

CalculateClosedBounds_LeftAsRight(hi, c) ==
    LET c2 == IF c = "None" THEN (IF hi THEN "right" ELSE "both") ELSE c
    IN IF c2 = "both" THEN <<TRUE, TRUE>>
       ELSE IF c2 = "right" THEN <<FALSE, TRUE>>
       ELSE IF c2 = "left" THEN <<FALSE, TRUE>>
       ELSE <<FALSE, FALSE>>
CalculateClosedBounds(hi, c) ==
    LET c2 == IF c = "None" THEN (IF hi THEN "right" ELSE "both") ELSE c
    IN IF c2 = "both" THEN <<TRUE, TRUE>>
       ELSE IF c2 = "right" THEN <<FALSE, TRUE>>
       ELSE IF c2 = "left" THEN <<TRUE, FALSE>>
       ELSE <<FALSE, FALSE>>

----------------------------------------------------------------------------
\* VariableWindowIndexer.get_window_bounds

\* start_bound = self.index[i] - window_size, one less when left-closed
StartBound_Incremented(key_i, w, left_closed) ==
    IF left_closed THEN key_i - w + 1 ELSE key_i - w
StartBound(key_i, w, left_closed) ==
    IF left_closed THEN key_i - w - 1 ELSE key_i - w

\* first j of range(start[i - 1], i)
ScanFrom_Zero(start, i) == 0
ScanFrom(start, i) == Idx(start, i - 1)

\* self.index[end[i - 1]] <= end_bound
EndExtends_Strict(key, endPrev, end_bound) == Idx(key, endPrev) < end_bound
EndExtends_Flipped(key, endPrev, end_bound) == Idx(key, endPrev) >= end_bound
EndExtends(key, endPrev, end_bound) == Idx(key, endPrev) <= end_bound

\* lines 137-150: allocation and entry 0
VarInit(num_values, right_closed) ==
    LET start == Filled(num_values)
        end   == Filled(num_values)
        acc   == [NoResult EXCEPT !.status = "ok", !.start = start, !.end = end]
    IN IF num_values = 0
       THEN Raise(acc, "IndexError", "init")
       ELSE [acc EXCEPT !.start = SetIdx(start, 0, 0),
                        !.end = SetIdx(end, 0, IF right_closed THEN 1 ELSE 0)]

\* lines 155-179: one iteration of the outer loop
VarIter(hi, key, w, left_closed, right_closed, acc, i) ==
    IF ~hi THEN Raise(acc, "TypeError", "scan")
    ELSE IF ~InRange(key, i) THEN Raise(acc, "IndexError", "scan")
    ELSE
    LET end_bound   == Idx(key, i)
        start_bound == StartBound(Idx(key, i), w, left_closed)
        from        == ScanFrom(acc.start, i)
        hits        == {j \in from..(i - 1) : Idx(key, j) > start_bound}
        start_i     == IF hits = {} THEN i ELSE Min(hits)
        visited     == {j \in from..(i - 1) : hits = {} \/ j <= Min(hits)}
        start2      == SetIdx(acc.start, i, start_i)
        endPrev     == Idx(acc.end, i - 1)
        acc2        == [acc EXCEPT !.start = start2,
                                   !.steps = @ + Cardinality(visited)]
    IN IF ~InRange(key, endPrev)
       THEN Raise([acc2 EXCEPT !.endReadsOk = FALSE], "IndexError", "scan")
       ELSE
       LET ext   == EndExtends(key, endPrev, end_bound)
           end_i == IF ext THEN i + 1 ELSE endPrev
           end_f == IF right_closed THEN end_i ELSE end_i - 1
       IN [acc2 EXCEPT !.end = SetIdx(acc.end, i, end_f),
                       !.held = IF ext THEN @ ELSE @ + 1,
                       !.endReads = @ \cup {endPrev},
                       !.endReadsOk = @ /\ endPrev >= 0]

\* for i in range(1, num_values)
RECURSIVE VarLoop(_, _, _, _, _, _, _, _)
VarLoop(hi, key, w, left_closed, right_closed, acc, i, num_values) ==
    IF i >= num_values \/ acc.status # "ok" THEN acc
    ELSE VarLoop(hi, key, w, left_closed, right_closed,
                 VarIter(hi, key, w, left_closed, right_closed, acc, i),
                 i + 1, num_values)

VariableGetWindowBounds(hi, key, hv, vs, w, c) ==
    LET cb          == CalculateClosedBounds(hi, c)
        num_values  == NumValues(hv, vs)
    IN VarLoop(hi, key, w, cb[1], cb[2], VarInit(num_values, cb[2]),
               1, num_values)

----------------------------------------------------------------------------
\* Inputs

NonDecreasingSeqs(n) ==
    {s \in [1..n -> 0..MaxKey] : \A x \in 1..(n - 1) : s[x] <= s[x + 1]}

Keys == UNION {NonDecreasingSeqs(n) : n \in 0..MaxLen}

ClosedValues == {"None", "both", "right", "left", "neither"}

Init ==
    /\ indexer \in {"Fixed", "Variable"}
    /\ hasValues \in BOOLEAN
    /\ values \in {Zeros(n) : n \in 0..MaxLen}
    /\ (~hasValues => values = <<>>)
    /\ hasIndex \in BOOLEAN
    /\ index \in Keys
    /\ (~hasIndex => index = <<>>)
    /\ (indexer = "Fixed" => ~hasIndex)
    /\ window_size \in 0..MaxWin
    /\ closed \in ClosedValues
    /\ pc = "ready"
    /\ result = NoResult

CallFixed ==
    /\ pc = "ready"
    /\ indexer = "Fixed"
    /\ result' = FixedGetWindowBounds(hasValues, values, window_size)
    /\ pc' = "done"
    /\ UNCHANGED <<indexer, hasIndex, index, hasValues, values, window_size,
                   closed>>

CallVariable ==
    /\ pc = "ready"
    /\ indexer = "Variable"
    /\ result' = VariableGetWindowBounds(hasIndex, index, hasValues, values,
                                         window_size, closed)
    /\ pc' = "done"
    /\ UNCHANGED <<indexer, hasIndex, index, hasValues, values, window_size,
                   closed>>

Next == CallFixed \/ CallVariable

Spec == Init /\ [][Next]_vars

----------------------------------------------------------------------------
\* Properties

num == NumValues(hasValues, values)
Done == pc = "done"
FixedCall == indexer = "Fixed"
VariableCall == indexer = "Variable"
\* the variable strategy's precondition: a key of the sequence's length
\* (every key of Init is non-decreasing)
ValidVariable == VariableCall /\ hasIndex /\ Len(index) = num
Closedness == CalculateClosedBounds(hasIndex, closed)
Positions == 0..(num - 1)

\* C1: for every valid input, both strategies return arrays with
\* len(start) = len(end) = sequence_length.
C1_LengthIsSequenceLength ==
    (Done /\ (FixedCall \/ ValidVariable)) =>
        /\ result.status = "ok"
        /\ Len(result.start) = num
        /\ Len(result.end) = num

\* C2: for every valid input, every entry of the returned arrays of both
\* strategies satisfies 0 <= start[i] <= end[i] <= sequence_length.
C2_EntriesWithinSequence ==
    (Done /\ (FixedCall \/ ValidVariable) /\ result.status = "ok") =>
        /\ Len(result.start) = Len(result.end)
        /\ \A x \in 1..Len(result.start) :
              /\ 0 <= result.start[x]
              /\ result.start[x] <= result.end[x]
              /\ result.end[x] <= num

\* C3: the fixed strategy gives, at every position i of the sequence,
\* start[i] = 0 and end[i] = i + 1 when i < window_size, and
\* start[i] = i - window_size + 1 and end[i] = i + 1 when i >= window_size.
C3_FixedFormula ==
    (Done /\ FixedCall) =>
        /\ result.status = "ok"
        /\ \A i \in Positions :
              /\ InRange(result.start, i) /\ InRange(result.end, i)
              /\ Idx(result.end, i) = i + 1
              /\ Idx(result.start, i) =
                    (IF i < window_size THEN 0 ELSE i - window_size + 1)

C3_Witness ==
    /\ Done /\ FixedCall
    /\ window_size = 3 /\ num = 5
    /\ result.start = <<0, 0, 0, 1, 2>>
    /\ result.end = <<1, 2, 3, 4, 5>>

\* the interval from key_i - w to key_i with the endpoints the policy includes
InWindowInterval(k, key_i, w, left_closed, right_closed) ==
    /\ (IF left_closed THEN k >= key_i - w ELSE k > key_i - w)
    /\ (IF right_closed THEN k <= key_i ELSE k < key_i)

\* C4: for a valid key, the slice [start[i], end[i]) of the variable
\* strategy holds exactly the positions j whose key lies in the interval
\* from key[i] - window_size to key[i], endpoints included as the closed
\* policy says.
C4_SliceIsKeyInterval ==
    (Done /\ ValidVariable /\ result.status = "ok") =>
        \A i \in Positions :
            {j \in Positions : Idx(result.start, i) <= j /\ j < Idx(result.end, i)}
            = {j \in Positions :
                  InWindowInterval(Idx(index, j), Idx(index, i), window_size,
                                   Closedness[1], Closedness[2])}

\* C5: for a valid key, the arrays start and end returned by the variable
\* strategy are both non-decreasing.
C5_BoundsNonDecreasing ==
    (Done /\ ValidVariable /\ result.status = "ok") =>
        \A i, j \in Positions :
            i < j => /\ Idx(result.start, i) <= Idx(result.start, j)
                     /\ Idx(result.end, i) <= Idx(result.end, j)

C5_Witness ==
    /\ Done /\ ValidVariable /\ result.status = "ok"
    /\ num >= 4
    /\ \E i \in 1..(num - 1) : Idx(result.start, i) = Idx(result.start, i - 1)
    /\ \E i \in 1..(num - 1) : Idx(result.start, i) > Idx(result.start, i - 1) + 1
    /\ \A i \in 1..(num - 1) : Idx(result.end, i) > Idx(result.end, i - 1)

\* the window sizes end[i] - start[i] of a call with the state's inputs
\* under the closed policy c
SizesUnder(c) ==
    LET r == VariableGetWindowBounds(hasIndex, index, hasValues, values,
                                     window_size, c)
    IN [i \in Positions |-> Idx(r.end, i) - Idx(r.start, i)]

\* C6: for the same key, length and window_size, at every position the
\* window under 'both' is at least as large as under 'right' and under
\* 'left', and those are each at least as large as under 'neither'.
C6_ClosedPolicyOrder ==
    (Done /\ ValidVariable /\ result.status = "ok") =>
        /\ result = VariableGetWindowBounds(hasIndex, index, hasValues,
                                            values, window_size, closed)
        /\ \A i \in Positions :
              /\ SizesUnder("both")[i] >= SizesUnder("right")[i]
              /\ SizesUnder("both")[i] >= SizesUnder("left")[i]
              /\ SizesUnder("right")[i] >= SizesUnder("neither")[i]
              /\ SizesUnder("left")[i] >= SizesUnder("neither")[i]

C6_Witness ==
    /\ Done /\ ValidVariable /\ result.status = "ok"
    /\ closed = "both"
    /\ \E i \in Positions :
          /\ Idx(result.end, i) - Idx(result.start, i) > SizesUnder("right")[i]
          /\ SizesUnder("right")[i] > SizesUnder("neither")[i]
          /\ SizesUnder("neither")[i] > 0

\* C7: with sequence_length = 0 both strategies return two empty arrays
\* and raise nothing, whatever window_size and closed are.
C7_EmptySequenceEmptyBounds ==
    (Done /\ num = 0 /\ (FixedCall \/ ValidVariable)) =>
        /\ result.status = "ok"
        /\ result.start = <<>>
        /\ result.end = <<>>

\* C8: when the key's length differs from the sequence length the variable
\* strategy raises InvalidArgument before the scan, before any entry of
\* start or end is written.
C8_MismatchRejectedBeforeScan ==
    (Done /\ VariableCall /\ hasIndex /\ Len(index) # num) =>
        /\ result.status = "InvalidArgument"
        /\ result.raisedAt = "init"
        /\ \A x \in 1..Len(result.start) : result.start[x] = -1
        /\ \A x \in 1..Len(result.end) : result.end[x] = -1

\* C9: for a valid key, the comparisons index[j] > start_bound of the inner
\* loop, summed over the whole call, are at most 2 * sequence_length.
C9_InnerStepsLinear ==
    (Done /\ ValidVariable) => result.steps <= 2 * num

C9_Witness ==
    /\ Done /\ ValidVariable /\ result.status = "ok"
    /\ num >= 4
    /\ result.steps > num

\* C10: for a valid key, end[i] = i + 1 at every position when right-closed
\* and end[i] = i when right-open; the branch end[i] = end[i-1] never runs
\* and every read index[end[i-1]] is inside the key.
C10_EndIsPositional ==
    (Done /\ ValidVariable) =>
        /\ result.held = 0
        /\ result.endReadsOk
        /\ result.endReads \subseteq 0..(Len(index) - 1)
        /\ (result.status = "ok" =>
              \A i \in Positions :
                  Idx(result.end, i) = (IF Closedness[2] THEN i + 1 ELSE i))

C10_Witness ==
    /\ Done /\ ValidVariable /\ result.status = "ok"
    /\ num >= 3
    /\ window_size = 0
    /\ Idx(index, 0) < Idx(index, num - 1)
    /\ (num - 1) \in result.endReads
    /\ Idx(result.end, num - 1) = num

====
